---- MODULE Spec2Model ----
(***************************************************************************)
(* A model of the horo-rag backend: the ChatService of                     *)
(* src/backend/chat_service.py (per-tenant index and document catalog,     *)
(* ingestion, citation construction, knowledge-gap detection, query) and   *)
(* the HTTP handlers of src/backend/main.py that call it.                  *)
(*                                                                         *)
(* Text is modelled by TLA+ strings (Len, \o and SubSeq act on them), so   *)
(* lower(), strip(), "word in text" and len() are computed, not assumed.   *)
(* Python floats occur only as literals that are stored and compared;      *)
(* they are modelled by the strings of those literals ("0.9", "0.3", ...). *)
(* An Optional value is modelled by a set with at most one element.        *)
(***************************************************************************)
EXTENDS Integers, Sequences, FiniteSets, Bags, TLC

VARIABLES
    tenant_indices,     \* ChatService.tenant_indices: tenant -> inserted Documents
    tenant_documents,   \* ChatService.tenant_documents: tenant -> DocumentInfo list
    pending,            \* bag of POST /upload requests suspended at "await file.read()"
    nreq,               \* number of POST /upload requests received so far
    completed,          \* history: per tenant, the DocumentInfo every completed
                        \* chat_service.upload_document call returned, in order
    resp                \* the last HTTP response sent, with what produced it

vars == <<tenant_indices, tenant_documents, pending, nreq, completed, resp>>

(***************************************************************************)
(* Bounds of the model.                                                    *)
(***************************************************************************)
MaxUploads == 2         \* POST /upload requests per behaviour
MaxNodes == 2           \* source nodes a provider response carries (SpecQuery)

(***************************************************************************)
(* Python str helpers.                                                     *)
(***************************************************************************)
None == {}
Some(x) == {x}

SetMin(S) == CHOOSE x \in S : \A y \in S : x <= y
SetMax(S) == CHOOSE x \in S : \A y \in S : x >= y
Min2(a, b) == IF a <= b THEN a ELSE b
Max2(a, b) == IF a >= b THEN a ELSE b

CharAt(s, i) == SubSeq(s, i, i)

UpperChars == "ABCDEFGHIJKLMNOPQRSTUVWXYZ"
LowerChars == "abcdefghijklmnopqrstuvwxyz"

\* upper-case letter -> lower-case letter
ToLower ==
    [c \in {CharAt(UpperChars, i) : i \in 1..Len(UpperChars)} |->
        CharAt(LowerChars,
               CHOOSE i \in 1..Len(UpperChars) : CharAt(UpperChars, i) = c)]

\* str.lower() of one character
LowerChar(c) == IF c \in DOMAIN ToLower THEN ToLower[c] ELSE c

\* str.lower()
RECURSIVE Lower(_)
Lower(s) ==
    IF Len(s) = 0 THEN s
    ELSE IF Len(s) = 1 THEN LowerChar(s)
    ELSE LET h == Len(s) \div 2
         IN  Lower(SubSeq(s, 1, h)) \o Lower(SubSeq(s, h + 1, Len(s)))

IsSpace(c) == c \in {" ", "\t", "\n", "\r"}

\* str.strip()
Strip(s) ==
    LET keep == {i \in 1..Len(s) : ~IsSpace(CharAt(s, i))}
    IN  IF keep = {} THEN "" ELSE SubSeq(s, SetMin(keep), SetMax(keep))

\* the Python test "w in s" on two strings
Contains(s, w) ==
    \E i \in 1..(Len(s) - Len(w) + 1) : SubSeq(s, i, i + Len(w) - 1) = w

\* any(word in s for word in words)
AnyIn(words, s) == \E w \in words : Contains(s, w)

\* s repeated n times (only used to build long inputs)
RECURSIVE Rep(_, _)
Rep(s, n) ==
    IF n = 0 THEN ""
    ELSE IF n = 1 THEN s
    ELSE Rep(s, n \div 2) \o Rep(s, n - (n \div 2))

\* bytes.decode('utf-8', errors='ignore'): a body is a sequence of pieces, each
\* a run of valid UTF-8 (its text) or a run of undecodable bytes, which is dropped
RECURSIVE Decode(_)
Decode(body) ==
    IF body = <<>> THEN ""
    ELSE (IF Head(body).valid THEN Head(body).text ELSE "") \o Decode(Tail(body))

(***************************************************************************)
(* Inputs of the model.                                                    *)
(***************************************************************************)
Tenants == {"t1", "t2"}
Filenames == {"Loan_Policy.txt", "notes.txt"}

Piece(valid, text) == [valid |-> valid, text |-> text]

\* undecodable bytes around 70 characters, 10 of them left by strip()
BodyShort ==
    <<Piece(FALSE, ""), Piece(TRUE, Rep(" ", 30) \o "short text" \o Rep(" ", 30)),
      Piece(FALSE, "")>>
\* 66 characters
BodyLending ==
    <<Piece(TRUE, "Our lending rules require two approvals for every new credit line.")>>
\* 66 characters
BodyNotes ==
    <<Piece(TRUE, "Weekly notes: the team reviewed open action items and closed four.")>>

Bodies == {BodyShort, BodyLending, BodyNotes}

\* messages of the errors a provider call raises
ProviderErrors == {"Connection refused"}

Questions == {"What is our Loan policy?", "Who approves travel?"}

Answer50 == "The loan policy requires two approvals per request"
Answer51 == "The loan policy requires two approvals per request."
AnswerEmpty == "Empty Response"
AnswerGap == "I found No Information about that topic in the uploaded documents."

Answers == {Answer50, Answer51, AnswerEmpty, AnswerGap}

\* 53 characters, repeated to 4240: two estimated pages
LongText == Rep("Lending rule: every credit line needs two approvals. ", 80)

\* the texts the model's uploads carry
Contents == {Decode(b) : b \in Bodies} \cup {LongText}

(***************************************************************************)
(* ChatService: the pure parts.                                            *)
(***************************************************************************)
\* hashlib.md5(f"{tenant_id}_{filename}".encode()).hexdigest()[:8], tabulated
\* over the keys the model's tenants and filenames produce
Md5Hex8(key) ==
    CASE key = "t1_Loan_Policy.txt" -> "d32b108f"
      [] key = "t1_notes.txt"       -> "895154df"
      [] key = "t2_Loan_Policy.txt" -> "de7903de"
      [] key = "t2_notes.txt"       -> "78215f31"

DocId(tenant_id, filename) == Md5Hex8(tenant_id \o "_" \o filename)

detect_document_type(filename, content) ==
    LET name == Lower(filename)
        content_lower == Lower(content)
    IN  IF AnyIn({"policy", "procedure", "rule"}, name) THEN "Policy"
        ELSE IF AnyIn({"handbook", "manual", "guide"}, name) THEN "Handbook"
        ELSE IF AnyIn({"finance", "financial", "budget", "revenue"}, name) THEN "Finance"
        ELSE IF AnyIn({"loan", "credit", "lending"}, content_lower) THEN "Policy"
        ELSE IF AnyIn({"onboard", "training", "employee"}, content_lower) THEN "Handbook"
        ELSE "Document"

\* line 47: the calls of detect_document_type on the model's inputs, each
\* evaluated once
DocumentTypeOf ==
    [f \in Filenames, c \in Contents |-> detect_document_type(f, c)]

estimate_pages(content) == Max2(1, Len(content) \div 2000)

\* models.DocumentInfo
DocumentInfo(id, name, type, pages) ==
    [id |-> id, name |-> name, type |-> type, pages |-> pages, status |-> "ready"]

\* the llama_index Document built in upload_document
Document(tenant_id, filename, content) ==
    [text |-> content,
     metadata |-> [filename |-> filename,
                   document_type |-> DocumentTypeOf[filename, content],
                   tenant_id |-> tenant_id,
                   doc_id |-> DocId(tenant_id, filename),
                   pages |-> estimate_pages(content)]]

(***************************************************************************)
(* ChatService.upload_document (chat_service.py 41-79).  The method is a   *)
(* coroutine without any await in it, so the event loop runs it in one     *)
(* step.  VectorStoreIndex.insert is the call to the index provider and    *)
(* may raise; insert_error is None when it succeeds and Some(message) when *)
(* it raises.                                                              *)
(***************************************************************************)
SetKey(m, k, v) == [x \in (DOMAIN m) \cup {k} |-> IF x = k THEN v ELSE m[x]]

\* a variant of EnsureIndex that builds a fresh index on every upload
EnsureIndexAlways(indices, tenant_id) == SetKey(indices, tenant_id, <<>>)

\* lines 63-65: "if tenant_id not in self.tenant_indices", the index is created
EnsureIndex(indices, tenant_id) ==
    IF tenant_id \notin DOMAIN indices THEN SetKey(indices, tenant_id, <<>>)
    ELSE indices

\* lines 63-65: under the same test on tenant_indices, the catalog is created
EnsureCatalog(indices, documents, tenant_id) ==
    IF tenant_id \notin DOMAIN indices THEN SetKey(documents, tenant_id, <<>>)
    ELSE documents

\* a variant of InsertDocument with one index shared by all tenants
InsertDocumentShared(indices, tenant_id, document) ==
    [t \in DOMAIN indices |-> Append(indices[t], document)]

\* line 68: self.tenant_indices[tenant_id].insert(document)
InsertDocument(indices, tenant_id, document) ==
    [indices EXCEPT ![tenant_id] = Append(@, document)]

\* a variant of AppendDocInfo that replaces the record carrying the same id
AppendDocInfoUpsert(documents, tenant_id, doc_info) ==
    LET old == documents[tenant_id]
    IN  IF \E i \in 1..Len(old) : old[i].id = doc_info.id
        THEN [documents EXCEPT ![tenant_id] =
                [i \in 1..Len(old) |->
                    IF old[i].id = doc_info.id THEN doc_info ELSE old[i]]]
        ELSE [documents EXCEPT ![tenant_id] = Append(@, doc_info)]

\* line 77: self.tenant_documents[tenant_id].append(doc_info)
AppendDocInfo(documents, tenant_id, doc_info) ==
    [documents EXCEPT ![tenant_id] = Append(@, doc_info)]

upload_document(indices, documents, tenant_id, filename, content, insert_error) ==
    LET document == Document(tenant_id, filename, content)
        md       == document.metadata
        indices1 == EnsureIndex(indices, tenant_id)
        docs1    == EnsureCatalog(indices, documents, tenant_id)
        doc_info == DocumentInfo(md.doc_id, filename, md.document_type, md.pages)
    IN  IF insert_error # None
        THEN [raised |-> TRUE, error |-> insert_error, ret |-> None,
              indices |-> indices1, documents |-> docs1]
        ELSE [raised |-> FALSE, error |-> None, ret |-> Some(doc_info),
              indices |-> InsertDocument(indices1, tenant_id, document),
              documents |-> AppendDocInfo(docs1, tenant_id, doc_info)]

(***************************************************************************)
(* Citations (chat_service.py 81-92, models.py 8-12).  A source node has a *)
(* metadata dict (keys may be missing), a text, and possibly a score       *)
(* attribute: has_score is hasattr(node, 'score'), score its Optional      *)
(* value.                                                                  *)
(***************************************************************************)
Get(d, k, default) == IF k \in DOMAIN d THEN d[k] ELSE default

\* the value handed to Citation(confidence=...)
NodeConfidence(node) == IF node.has_score THEN node.score ELSE Some("0.8")

\* pydantic validation of models.Citation: confidence is a required float, so
\* None is rejected with a ValidationError
CitationValid(node) == NodeConfidence(node) # None

CitationOf(node) ==
    [document |-> Get(node.metadata, "filename", "Unknown"),
     page |-> Min2(Get(node.metadata, "pages", 1),
                   Max2(1, Len(node.text) \div 500)),
     document_type |-> Get(node.metadata, "document_type", "Document"),
     confidence |-> CHOOSE c \in NodeConfidence(node) : TRUE]

\* the loop of extract_citations: it raises at the first node whose Citation
\* does not validate, and otherwise returns one Citation per node, in order
extract_citations(source_nodes) ==
    IF \E i \in 1..Len(source_nodes) : ~CitationValid(source_nodes[i])
    THEN [raised |-> TRUE, error |-> "1 validation error for Citation",
          citations |-> <<>>]
    ELSE [raised |-> FALSE, error |-> "",
          citations |-> [i \in 1..Len(source_nodes) |-> CitationOf(source_nodes[i])]]

(***************************************************************************)
(* Knowledge-gap detection (chat_service.py 94-122).                       *)
(***************************************************************************)
gap_indicators ==
    {"don't have information", "not found", "no information", "unable to find"}

detect_knowledge_gap(question, answer) ==
    LET question_lower == Lower(question)
        answer_lower == Lower(answer)
    IN  [has_gap |-> AnyIn(gap_indicators, answer_lower),
         suggestions |->
            IF AnyIn({"loan", "credit", "lending"}, question_lower)
            THEN <<"Loan Policy Document", "Credit Guidelines", "Lending Procedures">>
            ELSE IF AnyIn({"onboard", "training", "employee"}, question_lower)
            THEN <<"Employee Handbook", "Training Manual", "HR Policies">>
            ELSE IF AnyIn({"finance", "revenue", "cac", "budget"}, question_lower)
            THEN <<"Financial Reports", "Budget Documents", "Growth Metrics">>
            ELSE IF AnyIn({"customer", "client", "acquisition"}, question_lower)
            THEN <<"Customer Data", "Sales Reports", "Marketing Analytics">>
            ELSE <<"Business Documents", "Policy Manual", "Operational Guidelines">>]

\* line 149: the calls of detect_knowledge_gap on the model's inputs, each
\* evaluated once
KnowledgeGapOf ==
    [q \in Questions, a \in Answers |-> detect_knowledge_gap(q, a)]

(***************************************************************************)
(* ChatService.query (chat_service.py 124-169).  outcome is what the query *)
(* engine does when called: it raises (raised, error) or returns a         *)
(* response (answer, source_nodes).                                        *)
(***************************************************************************)
QueryResponse(answer, citations, confidence, has_knowledge_gap, suggestions) ==
    [answer |-> answer, citations |-> citations, confidence |-> confidence,
     has_knowledge_gap |-> has_knowledge_gap, suggestions |-> suggestions]

\* a variant of NoDocumentsResponse that reuses the default suggestions of
\* detect_knowledge_gap
NoDocumentsResponseDefault ==
    QueryResponse(
        "I don't have any documents to search. Please upload your business documents first.",
        <<>>, "0.0", TRUE,
        Some(<<"Business Documents", "Policy Manual", "Operational Guidelines">>))

\* lines 128-134
NoDocumentsResponse ==
    QueryResponse(
        "I don't have any documents to search. Please upload your business documents first.",
        <<>>, "0.0", TRUE, Some(<<"Business Documents", "Policy Manual">>))

\* lines 162-169
ErrorResponse(error) ==
    QueryResponse(
        "I encountered an error while searching your documents: " \o error,
        <<>>, "0.0", TRUE, Some(<<"Please try rephrasing your question">>))

\* a variant of Confidence whose length test is >= 50
ConfidenceFrom50(citations, answer) ==
    IF citations # <<>> /\ Len(answer) >= 50 THEN "0.9" ELSE "0.3"

\* line 152
Confidence(citations, answer) ==
    IF citations # <<>> /\ Len(answer) > 50 THEN "0.9" ELSE "0.3"

\* line 127: the tenant has an index
HasIndex(indices, tenant_id) == tenant_id \in DOMAIN indices

\* what a call ends in: a returned value, or an exception that propagates
Returned(value) == [raised |-> FALSE, error |-> "", ret |-> Some(value)]
Propagated(error) == [raised |-> TRUE, error |-> error, ret |-> None]

\* lines 137-160: the body of the try block
TryQuery(question, outcome) ==
    IF outcome.raised THEN Propagated(outcome.error)
    ELSE LET cit == extract_citations(outcome.source_nodes)
             gap == KnowledgeGapOf[question, outcome.answer]
         IN  IF cit.raised THEN Propagated(cit.error)
             ELSE Returned(QueryResponse(
                      outcome.answer, cit.citations,
                      Confidence(cit.citations, outcome.answer),
                      gap.has_gap,
                      IF gap.has_gap THEN Some(gap.suggestions) ELSE None))

\* a variant of QueryIndex whose handler catches only what the query engine
\* raised, and lets an error of the citation construction through
QueryIndexEngineOnly(question, outcome) ==
    LET r == TryQuery(question, outcome)
    IN  IF r.raised /\ outcome.raised THEN Returned(ErrorResponse(r.error)) ELSE r

\* lines 136-169: the try block with its "except Exception" handler
QueryIndex(question, outcome) ==
    LET r == TryQuery(question, outcome)
    IN  IF r.raised THEN Returned(ErrorResponse(r.error)) ELSE r

query(indices, tenant_id, question, outcome) ==
    IF ~HasIndex(indices, tenant_id) THEN Returned(NoDocumentsResponse)
    ELSE QueryIndex(question, outcome)

\* a variant of StoreAfterQuery for a dict that creates the entries it is asked for
StoreAfterQueryCreating(indices, tenant_id) == SetKey(indices, tenant_id, <<>>)

\* lines 127 and 138 read self.tenant_indices with "in" and [...] on a plain
\* dict: the dict after the read
StoreAfterQuery(indices, tenant_id) == indices

\* lines 171-173
get_documents(documents, tenant_id) ==
    IF tenant_id \in DOMAIN documents THEN documents[tenant_id] ELSE <<>>

\* line 173 reads self.tenant_documents with .get(tenant_id, []), which inserts
\* nothing: the dict after the read
CatalogAfterGet(documents, tenant_id) == documents

(***************************************************************************)
(* What the query engine can do when called.                               *)
(***************************************************************************)
RaisedOutcome(error) ==
    [raised |-> TRUE, error |-> error, answer |-> "", source_nodes |-> <<>>]
ReturnedOutcome(answer, source_nodes) ==
    [raised |-> FALSE, error |-> "", answer |-> answer, source_nodes |-> source_nodes]

\* a source node cut from an inserted Document
Node(metadata, text, has_score, score) ==
    [metadata |-> metadata, text |-> text, has_score |-> has_score, score |-> score]

\* similarity_top_k=3 (line 139)
TopK == 3

\* the first TopK Documents of an index as scored nodes
TopNodes(index) ==
    [i \in 1..Min2(TopK, Len(index)) |->
        Node(index[i].metadata, index[i].text, TRUE, Some("0.5"))]

\* the outcomes explored with the whole service (Spec); without an index the
\* engine is not called and the outcome is not read
Outcomes(indices, tenant_id) ==
    IF ~HasIndex(indices, tenant_id) THEN {RaisedOutcome("Connection refused")}
    ELSE {RaisedOutcome(e) : e \in ProviderErrors}
         \cup {ReturnedOutcome(Answer51, ns) :
                 ns \in {<<>>, TopNodes(indices[tenant_id])}}

(***************************************************************************)
(* The HTTP handlers of main.py.  Each runs on the event loop and is       *)
(* interleaved with the others only where it awaits something that         *)
(* suspends: POST /upload at "await file.read()" (line 26).                *)
(***************************************************************************)
Response(op, tenant, status, detail) ==
    [op |-> op, tenant |-> tenant, status |-> status, detail |-> detail,
     req |-> None, svc |-> FALSE, doc |-> None,
     body_tenant |-> "", question |-> "", outcome |-> None, qr |-> None, docs |-> <<>>]

NoResponse == Response("none", "", 0, "")

\* an exception raised inside the try block of the upload handler
Raised(class, text) == [class |-> class, text |-> text]

\* lines 41-44: the except clauses, tried in order.  HTTPException derives from
\* Exception, as every class raised in the try block does
UploadExcept(e) ==
    IF e.class = "UnicodeDecodeError"
    THEN [status |-> 400,
          detail |-> "Unable to read file. Please upload text-based documents."]
    ELSE [status |-> 500, detail |-> "Upload failed: " \o e.text]

\* line 29
TooShort(text_content) == Len(Strip(text_content)) < 50

\* lines 19-26: the request arrives and the handler awaits the file's bytes.
\* first notes whether the tenant had no index yet at that moment
UploadReceive(tenant, filename, body) ==
    /\ nreq < MaxUploads
    /\ nreq' = nreq + 1
    /\ pending' = pending (+)
          SetToBag({[tenant |-> tenant, filename |-> filename, body |-> body,
                     first |-> ~HasIndex(tenant_indices, tenant)]})
    /\ UNCHANGED <<tenant_indices, tenant_documents, completed, resp>>

\* lines 27-44: the rest of the handler, with the call of
\* chat_service.upload_document, runs without suspending
UploadProcess(r, insert_error) ==
    /\ BagIn(r, pending)
    /\ pending' = pending (-) SetToBag({r})
    /\ LET text_content == Decode(r.body)
           up == upload_document(tenant_indices, tenant_documents,
                                 r.tenant, r.filename, text_content, insert_error)
       IN  IF TooShort(text_content)
           THEN LET h == UploadExcept(Raised("HTTPException",
                                             "400: Document too short or empty"))
                IN  /\ resp' = [Response("upload", r.tenant, h.status, h.detail)
                                  EXCEPT !.req = Some(r)]
                    /\ UNCHANGED <<tenant_indices, tenant_documents, completed>>
           ELSE /\ tenant_indices' = up.indices
                /\ tenant_documents' = up.documents
                /\ IF up.raised
                   THEN LET h == UploadExcept(
                                   Raised("Exception", CHOOSE m \in up.error : TRUE))
                        IN  /\ resp' = [Response("upload", r.tenant, h.status, h.detail)
                                          EXCEPT !.req = Some(r), !.svc = TRUE]
                            /\ UNCHANGED completed
                   ELSE /\ resp' = [Response("upload", r.tenant, 200, "")
                                      EXCEPT !.req = Some(r), !.svc = TRUE,
                                             !.doc = up.ret]
                        /\ completed' = [completed EXCEPT ![r.tenant] =
                                            Append(@, CHOOSE d \in up.ret : TRUE)]
    /\ UNCHANGED nreq

\* lines 46-56.  chat_service.query has no await in it either; an exception
\* that leaves it is answered by the framework with status 500.  outcome is
\* recorded when the query engine was called
query_documents(header_tenant, body_tenant, question, outcome) ==
    /\ IF body_tenant # header_tenant
       THEN /\ resp' = [Response("query", header_tenant, 403, "Tenant ID mismatch")
                          EXCEPT !.body_tenant = body_tenant]
            /\ UNCHANGED tenant_indices
       ELSE /\ LET r == query(tenant_indices, body_tenant, question, outcome)
                   IN  resp' = [Response("query", header_tenant,
                                         IF r.raised THEN 500 ELSE 200,
                                         IF r.raised THEN "Internal Server Error" ELSE "")
                                  EXCEPT !.body_tenant = body_tenant,
                                         !.question = question,
                                         !.outcome =
                                            IF HasIndex(tenant_indices, body_tenant)
                                            THEN Some(outcome) ELSE None,
                                         !.qr = r.ret]
            /\ tenant_indices' = StoreAfterQuery(tenant_indices, body_tenant)
    /\ UNCHANGED <<tenant_documents, pending, nreq, completed>>

\* lines 58-61
list_documents(header_tenant) ==
    /\ resp' = [Response("documents", header_tenant, 200, "") EXCEPT
                  !.docs = get_documents(tenant_documents, header_tenant)]
    /\ tenant_documents' = CatalogAfterGet(tenant_documents, header_tenant)
    /\ UNCHANGED <<tenant_indices, pending, nreq, completed>>

\* lines 63-65
health_check ==
    /\ resp' = Response("health", "", 200, "healthy")
    /\ UNCHANGED <<tenant_indices, tenant_documents, pending, nreq, completed>>

(***************************************************************************)
(* The service from process start.                                         *)
(***************************************************************************)
EmptyStore == [t \in {} |-> <<>>]

Init ==
    /\ tenant_indices = EmptyStore
    /\ tenant_documents = EmptyStore
    /\ pending = EmptyBag
    /\ nreq = 0
    /\ completed = [t \in Tenants |-> <<>>]
    /\ resp = NoResponse

Next ==
    \/ \E t \in Tenants, f \in Filenames, b \in Bodies : UploadReceive(t, f, b)
    \/ \E r \in BagToSet(pending), e \in {None} \cup {Some(m) : m \in ProviderErrors} :
          UploadProcess(r, e)
    \/ \E h \in Tenants, t \in Tenants, q \in Questions :
          \E o \in Outcomes(tenant_indices, t) : query_documents(h, t, q, o)
    \/ \E h \in Tenants : list_documents(h)
    \/ health_check

Spec == Init /\ [][Next]_vars

(***************************************************************************)
(* One query against a store that earlier uploads built, with every shape  *)
(* of provider response: the specification for the claims about what       *)
(* ChatService.query computes.                                             *)
(***************************************************************************)
Upload(tenant, filename, content, insert_error) ==
    [tenant |-> tenant, filename |-> filename, content |-> content,
     insert_error |-> insert_error]

\* the store after the upload_document calls of ups, made in order from start
RECURSIVE StoreAfter(_)
StoreAfter(ups) ==
    IF ups = <<>>
    THEN [indices |-> EmptyStore, documents |-> EmptyStore,
          completed |-> [t \in Tenants |-> <<>>]]
    ELSE LET before == StoreAfter(SubSeq(ups, 1, Len(ups) - 1))
             u == ups[Len(ups)]
             up == upload_document(before.indices, before.documents,
                                   u.tenant, u.filename, u.content, u.insert_error)
         IN  [indices |-> up.indices, documents |-> up.documents,
              completed |-> IF up.raised THEN before.completed
                            ELSE [before.completed EXCEPT ![u.tenant] =
                                     Append(@, CHOOSE d \in up.ret : TRUE)]]

QueryStores ==
    {StoreAfter(ups) : ups \in {
        <<>>,
        <<Upload("t1", "notes.txt", Decode(BodyNotes), Some("Connection refused"))>>,
        <<Upload("t1", "Loan_Policy.txt", LongText, None),
          Upload("t1", "notes.txt", Decode(BodyNotes), None),
          Upload("t2", "notes.txt", Decode(BodyLending), None)>>}}

\* a metadata dict that lost a key
Without(d, k) == [x \in (DOMAIN d) \ {k} |-> d[x]]

\* the nodes a retriever can cut from one inserted Document: the whole text or
\* its first 1200 characters, the metadata with or without the filename, and
\* a score that is absent, None or a number
NodesOf(document) ==
    {Node(md, text, sc[1], sc[2]) :
        md \in {document.metadata, Without(document.metadata, "filename")},
        text \in {document.text, SubSeq(document.text, 1, Min2(1200, Len(document.text)))},
        sc \in {<<FALSE, None>>, <<TRUE, None>>, <<TRUE, Some("0.5")>>}}

NodeUniverse(index) == UNION {NodesOf(index[i]) : i \in 1..Len(index)}

\* the sequences of at most n elements of S
SeqsUpTo(S, n) == UNION {[1..k -> S] : k \in 0..n}

\* the outcomes explored for one query (SpecQuery)
QueryOutcomes(indices, tenant_id) ==
    IF ~HasIndex(indices, tenant_id) THEN {RaisedOutcome("Connection refused")}
    ELSE {RaisedOutcome(e) : e \in ProviderErrors}
         \cup {ReturnedOutcome(a, ns) :
                 a \in Answers,
                 ns \in SeqsUpTo(NodeUniverse(indices[tenant_id]),
                                 Min2(MaxNodes, TopK))}

InitQuery ==
    /\ \E st \in QueryStores :
          /\ tenant_indices = st.indices
          /\ tenant_documents = st.documents
          /\ completed = st.completed
    /\ pending = EmptyBag
    /\ nreq = 0
    /\ resp = NoResponse

NextQuery ==
    /\ resp = NoResponse
    /\ \E h \in Tenants, t \in Tenants, q \in Questions :
          \E o \in QueryOutcomes(tenant_indices, t) : query_documents(h, t, q, o)

SpecQuery == InitQuery /\ [][NextQuery]_vars

(***************************************************************************)
(* Properties of the tenant store and the upload handler, under Spec.      *)
(***************************************************************************)
Range(seq) == {seq[i] : i \in 1..Len(seq)}
Count(seq, x) == Cardinality({i \in 1..Len(seq) : seq[i] = x})

\* the step is the processing of the suspended upload request r
ProcessedStep(r) == BagIn(r, pending) /\ pending' = pending (-) SetToBag({r})

\* C1: a tenant has an entry in tenant_indices if and only if at least one
\* upload_document call for it has completed, and a query for a tenant with no
\* completed upload gets the fixed no-documents response.
C1_CorpusIffIngested ==
    /\ \A t \in Tenants : HasIndex(tenant_indices, t) <=> completed[t] # <<>>
    /\ (resp.op = "query" /\ resp.status = 200 /\ completed[resp.body_tenant] = <<>>)
          => resp.qr = Some(NoDocumentsResponse)

\* C2: processing an upload for one tenant leaves every other tenant's index
\* and catalog as they were; every Document in a tenant's index, every source
\* node and citation of a query for it, and every record GET /documents
\* returns for it, comes from an upload made under that tenant.
C2_TenantIsolation ==
    /\ [][\A r \in BagToSet(pending) : ProcessedStep(r) =>
            \A t2 \in Tenants \ {r.tenant} :
               /\ HasIndex(tenant_indices', t2) = HasIndex(tenant_indices, t2)
               /\ (t2 \in DOMAIN tenant_documents') = (t2 \in DOMAIN tenant_documents)
               /\ HasIndex(tenant_indices, t2) => tenant_indices'[t2] = tenant_indices[t2]
               /\ t2 \in DOMAIN tenant_documents =>
                     tenant_documents'[t2] = tenant_documents[t2]]_vars
    /\ [](\A t \in DOMAIN tenant_indices : \A i \in 1..Len(tenant_indices[t]) :
             /\ tenant_indices[t][i].metadata.tenant_id = t
             /\ \E d \in Range(completed[t]) :
                   /\ d.name = tenant_indices[t][i].metadata.filename
                   /\ d.id = tenant_indices[t][i].metadata.doc_id)
    /\ [](resp.op = "documents" => Range(resp.docs) \subseteq Range(completed[resp.tenant]))
    /\ [](resp.op = "query" =>
            /\ \A o \in resp.outcome : \A i \in 1..Len(o.source_nodes) :
                  o.source_nodes[i].metadata.tenant_id = resp.body_tenant
            /\ \A r \in resp.qr : \A i \in 1..Len(r.citations) :
                  \E d \in Range(completed[resp.body_tenant]) :
                     d.name = r.citations[i].document)

\* C2 witness: an upload for t1 has just succeeded while t2 holds documents, and
\* t1 and t2 both have an index.
C2_Witness ==
    /\ resp.op = "upload" /\ resp.status = 200 /\ resp.tenant = "t1"
    /\ HasIndex(tenant_indices, "t2") /\ Len(tenant_indices["t2"]) = 1
    /\ Len(tenant_documents["t2"]) = 1

\* C4: an upload whose decoded text is shorter than 50 characters after
\* trimming is answered with status 400 without the service being called, and
\* status 500 answers only other failures.
C4_ShortUploadRejected400 ==
    resp.op = "upload" =>
        \A r \in resp.req :
           /\ TooShort(Decode(r.body)) => (resp.status = 400 /\ ~resp.svc)
           /\ resp.status = 500 => ~TooShort(Decode(r.body))

\* C8: a step of POST /query or GET /documents leaves tenant_indices and
\* tenant_documents as they were, so a query for an unknown tenant creates no
\* corpus for it.
C8_QueryLeavesStore ==
    [][(pending' = pending /\ nreq' = nreq /\ resp'.op \in {"query", "documents"}) =>
          (tenant_indices' = tenant_indices /\ tenant_documents' = tenant_documents)]_vars

\* C8 witness: a query for a tenant without an index has been answered while
\* another tenant has one, and the queried tenant still has none.
C8_Witness ==
    /\ resp.op = "query" /\ resp.status = 200
    /\ ~HasIndex(tenant_indices, resp.body_tenant)
    /\ resp.body_tenant \notin DOMAIN tenant_documents
    /\ tenant_indices # EmptyStore

\* C9: a successful upload appends exactly one record at the end of its
\* tenant's catalog (and one Document at the end of its index) and keeps the
\* earlier ones; GET /documents returns the records in upload order; the id
\* depends on (tenant, filename) only, and a second upload of the same filename
\* is kept beside the first under the same id.
C9_CatalogAppendOnly ==
    /\ [][\A r \in BagToSet(pending) :
            (ProcessedStep(r) /\ resp'.status = 200) =>
               LET t == r.tenant
                   old == get_documents(tenant_documents, t)
                   oldix == IF HasIndex(tenant_indices, t) THEN tenant_indices[t] ELSE <<>>
               IN  /\ t \in DOMAIN tenant_documents' /\ HasIndex(tenant_indices', t)
                   /\ Len(tenant_documents'[t]) = Len(old) + 1
                   /\ SubSeq(tenant_documents'[t], 1, Len(old)) = old
                   /\ resp'.doc = {tenant_documents'[t][Len(old) + 1]}
                   /\ tenant_documents'[t][Len(old) + 1].name = r.filename
                   /\ tenant_documents'[t][Len(old) + 1].id = DocId(t, r.filename)
                   /\ Len(tenant_indices'[t]) = Len(oldix) + 1
                   /\ SubSeq(tenant_indices'[t], 1, Len(oldix)) = oldix
                   /\ tenant_indices'[t][Len(oldix) + 1].metadata.doc_id
                         = DocId(t, r.filename)]_vars
    /\ [](resp.op = "documents" => resp.docs = completed[resp.tenant])
    /\ [](\A t \in DOMAIN tenant_documents :
             \A i, j \in 1..Len(tenant_documents[t]) :
                tenant_documents[t][i].name = tenant_documents[t][j].name
                   => tenant_documents[t][i].id = tenant_documents[t][j].id)

\* C9 witness: the same filename was uploaded twice for a tenant with changed
\* content, and the catalog holds both records under one id.
C9_Witness ==
    \E t \in DOMAIN tenant_documents :
       /\ Len(tenant_documents[t]) = 2 /\ Len(tenant_indices[t]) = 2
       /\ tenant_documents[t][1].id = tenant_documents[t][2].id
       /\ tenant_documents[t][1].type # tenant_documents[t][2].type
       /\ resp.op = "upload" /\ resp.doc = {tenant_documents[t][2]}

\* C10: whatever the interleaving of the upload requests, every record a
\* successful upload returned is in its tenant's catalog, and its Document in
\* the tenant's index, as many times as it was uploaded.
C10_ConcurrentUploadsKept ==
    \A t \in Tenants : \A d \in Range(completed[t]) :
       /\ HasIndex(tenant_indices, t) /\ t \in DOMAIN tenant_documents
       /\ Count(tenant_documents[t], d) = Count(completed[t], d)
       /\ Cardinality({i \in 1..Len(tenant_indices[t]) :
             LET md == tenant_indices[t][i].metadata
             IN  /\ md.doc_id = d.id /\ md.filename = d.name
                 /\ md.document_type = d.type /\ md.pages = d.pages})
             = Count(completed[t], d)

\* C10 witness: two requests for one tenant were both received while the tenant
\* had no index, so both were suspended together and raced on its creation;
\* both have succeeded.
C10_Witness ==
    /\ nreq = 2 /\ pending = EmptyBag
    /\ resp.op = "upload" /\ resp.status = 200
    /\ \A r \in resp.req : r.first
    /\ Len(completed[resp.tenant]) = 2
    /\ Len(tenant_documents[resp.tenant]) = 2

(***************************************************************************)
(* Properties of one query, under SpecQuery.                               *)
(***************************************************************************)
\* the node's score was not supplied: no attribute, or an attribute of None
ScoreMissing(node) == ~node.has_score \/ node.score = None

\* C3: a query for a tenant with an index never lets a fault through: when the
\* query engine or the construction of the citations raises, the response is
\* the error response with the error's message, and POST /query with matching
\* tenant ids is answered 200.
C3_QueryRecoversFaults ==
    (resp.op = "query" /\ resp.body_tenant = resp.tenant) =>
        /\ resp.status = 200
        /\ resp.qr # None
        /\ \A o \in resp.outcome :
              LET failed == o.raised
                            \/ \E i \in 1..Len(o.source_nodes) :
                                  ~CitationValid(o.source_nodes[i])
                  message == IF o.raised THEN o.error
                             ELSE "1 validation error for Citation"
              IN  failed =>
                     resp.qr = {[answer |->
                                    "I encountered an error while searching your documents: "
                                       \o message,
                                 citations |-> <<>>,
                                 confidence |-> "0.0",
                                 has_knowledge_gap |-> TRUE,
                                 suggestions |-> {<<"Please try rephrasing your question">>}]}

\* C3 witness: the query engine returned, the construction of a citation raised,
\* and the request was answered 200.
C3_Witness ==
    /\ resp.op = "query" /\ resp.status = 200
    /\ \E o \in resp.outcome :
          /\ ~o.raised
          /\ Len(o.source_nodes) = 2
          /\ CitationValid(o.source_nodes[1])
          /\ ~CitationValid(o.source_nodes[2])

\* C5: a query for a tenant without an index is answered, whatever the
\* question, with the fixed no-documents response, and the query engine is not
\* called.
C5_NoCorpusResponse ==
    (resp.op = "query" /\ resp.body_tenant = resp.tenant
        /\ ~HasIndex(tenant_indices, resp.body_tenant)) =>
        /\ resp.qr = {[answer |->
                         "I don't have any documents to search. Please upload your business documents first.",
                       citations |-> <<>>,
                       confidence |-> "0.0",
                       has_knowledge_gap |-> TRUE,
                       suggestions |-> {<<"Business Documents", "Policy Manual">>}]}
        /\ resp.outcome = None

\* C5 witness: such a query, with a question that matches no keyword group,
\* was answered while another tenant had an index.
C5_Witness ==
    /\ resp.op = "query" /\ resp.status = 200
    /\ tenant_indices # EmptyStore
    /\ ~HasIndex(tenant_indices, resp.body_tenant)
    /\ resp.question = "Who approves travel?"
    /\ resp.qr # None

\* the query took the normal path: the engine returned and every citation was built
NormalPath(o) ==
    /\ ~o.raised
    /\ \A i \in 1..Len(o.source_nodes) : CitationValid(o.source_nodes[i])

\* C6: on the normal path the confidence is 0.9 exactly when there is at least
\* one citation and the answer is longer than 50 characters, and 0.3 otherwise;
\* 50 characters give 0.3, 51 with a citation give 0.9.
C6_ConfidenceRule ==
    resp.op = "query" =>
        \A o \in resp.outcome : \A r \in resp.qr :
           NormalPath(o) =>
              /\ r.answer = o.answer
              /\ r.confidence \in {"0.9", "0.3"}
              /\ r.confidence = "0.9" <=> (Len(r.citations) > 0 /\ Len(r.answer) > 50)
              /\ Len(r.answer) = 50 => r.confidence = "0.3"
              /\ (Len(r.answer) = 51 /\ Len(r.citations) >= 1) => r.confidence = "0.9"

\* C6 witness: an answer of exactly 50 characters with a citation.
C6_Witness ==
    /\ resp.op = "query"
    /\ \E o \in resp.outcome : NormalPath(o)
    /\ \E r \in resp.qr :
          Len(r.answer) = 50 /\ Len(r.citations) = 1 /\ r.confidence = "0.3"

\* C7: when the query engine returns, the response carries one citation per
\* source node, in node order; a node without a score gives confidence 0.8, a
\* node without a filename gives document "Unknown"; and a missing score does
\* not take the query off the normal path.
C7_CitationPerFragment ==
    resp.op = "query" =>
        \A o \in resp.outcome : \A r \in resp.qr :
           ~o.raised =>
              /\ r.answer = o.answer
              /\ Len(r.citations) = Len(o.source_nodes)
              /\ \A i \in 1..Len(o.source_nodes) :
                    LET node == o.source_nodes[i]
                        c == r.citations[i]
                    IN  /\ c.document = Get(node.metadata, "filename", "Unknown")
                        /\ c.document_type = node.metadata.document_type
                        /\ ScoreMissing(node) => c.confidence = "0.8"
                        /\ ~ScoreMissing(node) => {c.confidence} = node.score

====
